---- MODULE Spec2Model ----
(***************************************************************************)
(* The mind-map store (src/src/store/mindMapStore.ts): the graph state     *)
(* (nodes, edges, selection, map metadata, edge style defaults), the       *)
(* linear undo/redo history (past, future) and the saved-map list.         *)
(*                                                                         *)
(* Every store handler is a pure operator from a store record (the value   *)
(* returned by get()) to the store record after the handler returned; an   *)
(* action applies one handler to the current state.  JavaScript strings    *)
(* are TLA+ strings; an optional object field that is undefined is a       *)
(* record key that is absent.                                              *)
(***************************************************************************)
EXTENDS Integers, Sequences, FiniteSets, TLC

VARIABLES
    nodes,           \* Node<MindMapNodeData>[]
    edges,           \* Edge[]
    selectedNodeId,  \* string | null
    mapName,
    mapId,
    edgeStyle,
    edgeColor,
    edgeLineStyle,
    savedMaps,       \* SavedMap[]
    past,            \* {nodes, edges}[]
    future,          \* {nodes, edges}[]
    nodeIdCounter,   \* module-level counter of generateNodeId
    now,             \* the value Date.now() returns
    lastOp,          \* history variable: the handler call that produced this state
    calls,           \* history variable: the number of handler calls so far, up to one more than the largest bound on calls
    run,             \* history variable: the current streak of snapshotting calls and the undos after it
    capturedIn       \* history variable: for each entry of past and of future, the mapId that was current when it was pushed

vars == <<nodes, edges, selectedNodeId, mapName, mapId, edgeStyle, edgeColor,
          edgeLineStyle, savedMaps, past, future, nodeIdCounter, now, lastOp, calls, run,
          capturedIn>>

-----------------------------------------------------------------------------
(* Bounds of the model *)

\* the editing specification: most nodes, most edges, most history entries
\* (past and future together), largest node id counter
MaxNodes == 3
MaxEdges == 3
MaxHistory == 3
MaxIdCounter == 3
\* the session specification: most handler calls
MaxCalls == 3
\* the topic specification: most history entries, most topics of a node and
\* most sub-topics of a topic
MaxTopicHistory == 4
MaxTopics == 2
\* largest clock value
MaxClock == 1
\* the map specification: most handler calls (and at most MaxNodes nodes)
MaxMapCalls == 4
\* the topic specification with clearMap: most history entries
MaxTopicMapHistory == 6

-----------------------------------------------------------------------------
(* JavaScript values *)

null == "null"
undefined == ""

Has(r, k) == k \in DOMAIN r
Get(r, k, d) == IF k \in DOMAIN r THEN r[k] ELSE d
\* { ...a, ...b }
Spread(a, b) == [k \in DOMAIN a \cup DOMAIN b |-> IF k \in DOMAIN b THEN b[k] ELSE a[k]]
\* an object without one key (a key whose value is undefined)
Without(r, k) == [j \in DOMAIN r \ {k} |-> r[j]]

Range(s) == {s[i] : i \in 1..Len(s)}
Map(s, F(_)) == [i \in 1..Len(s) |-> F(s[i])]
\* Array.prototype.findIndex, 1-based, 0 when there is none
findIndex(s, P(_)) ==
    IF \E i \in 1..Len(s) : P(s[i])
    THEN CHOOSE i \in 1..Len(s) : P(s[i]) /\ \A j \in 1..(i - 1) : ~P(s[j])
    ELSE 0
Max(S, d) == IF S = {} THEN d ELSE CHOOSE m \in S : \A x \in S : x <= m

-----------------------------------------------------------------------------
(* Module-level definitions of the store *)

WindowInnerWidth == 1024
WindowInnerHeight == 768
VERTICAL_SPACING == 60
HORIZONTAL_OFFSET == 250

initialNodes ==
    << [id |-> "root", type |-> "mindMapNode", position |-> [x |-> 400, y |-> 300],
        data |-> [label |-> "Central Idea", color |-> "blue", nodeType |-> "text"]] >>

initialEdges == << >>

generateNodeId(counter, t) == "node-" \o ToString(counter) \o "-" \o ToString(t)

generateMapId(t, rnd) == "map-" \o ToString(t) \o "-" \o rnd

\* the store state as get() returns it, with the module-level counter
Store ==
    [nodes |-> nodes, edges |-> edges, selectedNodeId |-> selectedNodeId,
     mapName |-> mapName, mapId |-> mapId, edgeStyle |-> edgeStyle,
     edgeColor |-> edgeColor, edgeLineStyle |-> edgeLineStyle,
     savedMaps |-> savedMaps, past |-> past, future |-> future,
     nodeIdCounter |-> nodeIdCounter]

Snapshot(s) == [nodes |-> s.nodes, edges |-> s.edges]

-----------------------------------------------------------------------------
(* History *)

\* addToHistory without the push onto past
addToHistoryWithoutPush(s) == [s EXCEPT !.future = << >>]

addToHistory(s) ==
    [s EXCEPT !.past = Append(s.past, Snapshot(s)), !.future = << >>]

\* undo that also clears the selection
undoClearingSelection(s) ==
    IF Len(s.past) = 0 THEN s
    ELSE LET previous == s.past[Len(s.past)]
             newPast == SubSeq(s.past, 1, Len(s.past) - 1)
         IN [s EXCEPT !.past = newPast,
                      !.future = Append(s.future, Snapshot(s)),
                      !.nodes = previous.nodes,
                      !.edges = previous.edges,
                      !.selectedNodeId = null]

\* undo that pushes the restored state, not the current one, onto future
undoPushingPrevious(s) ==
    IF Len(s.past) = 0 THEN s
    ELSE LET previous == s.past[Len(s.past)]
             newPast == SubSeq(s.past, 1, Len(s.past) - 1)
         IN [s EXCEPT !.past = newPast,
                      !.future = Append(s.future, previous),
                      !.nodes = previous.nodes,
                      !.edges = previous.edges]

\* undo that leaves the entry it installs on past
undoWithoutPop(s) ==
    IF Len(s.past) = 0 THEN s
    ELSE LET previous == s.past[Len(s.past)]
         IN [s EXCEPT !.future = Append(s.future, Snapshot(s)),
                      !.nodes = previous.nodes,
                      !.edges = previous.edges]

undo(s) ==
    IF Len(s.past) = 0 THEN s
    ELSE LET previous == s.past[Len(s.past)]
             newPast == SubSeq(s.past, 1, Len(s.past) - 1)
         IN [s EXCEPT !.past = newPast,
                      !.future = Append(s.future, Snapshot(s)),
                      !.nodes = previous.nodes,
                      !.edges = previous.edges]

\* redo that installs the nodes of the next state and leaves the edges
redoWithoutEdges(s) ==
    IF Len(s.future) = 0 THEN s
    ELSE LET next == s.future[Len(s.future)]
             newFuture == SubSeq(s.future, 1, Len(s.future) - 1)
         IN [s EXCEPT !.past = Append(s.past, Snapshot(s)),
                      !.future = newFuture,
                      !.nodes = next.nodes]

redo(s) ==
    IF Len(s.future) = 0 THEN s
    ELSE LET next == s.future[Len(s.future)]
             newFuture == SubSeq(s.future, 1, Len(s.future) - 1)
         IN [s EXCEPT !.past = Append(s.past, Snapshot(s)),
                      !.future = newFuture,
                      !.nodes = next.nodes,
                      !.edges = next.edges]

-----------------------------------------------------------------------------
(* Graph mutation *)

\* the style object without the dash of the line style default
edgeStyleObjectWithoutDash(color, lineStyle) == [strokeWidth |-> 2, stroke |-> color]

\* the style object addNode and onConnect give a new edge
edgeStyleObject(color, lineStyle) ==
    IF lineStyle = "dashed"
    THEN [strokeWidth |-> 2, stroke |-> color, strokeDasharray |-> "5,5"]
    ELSE [strokeWidth |-> 2, stroke |-> color]

\* reactflow addEdge(edgeParams, edges) as onConnect calls it: edgeParams has no
\* id, so the id is getEdgeId(edgeParams); nothing is added without a source or a
\* target, or when connectionExists (same source, target and handles)
addEdge(edgeParams, es) ==
    IF edgeParams.source = undefined \/ edgeParams.target = undefined THEN es
    ELSE LET edge == Spread(edgeParams,
                 [id |-> "reactflow__edge-" \o edgeParams.source \o "-" \o edgeParams.target])
             connectionExists ==
                 \E i \in 1..Len(es) :
                     /\ es[i].source = edge.source
                     /\ es[i].target = edge.target
                     /\ Get(es[i], "sourceHandle", null) = edge.sourceHandle
                     /\ Get(es[i], "targetHandle", null) = edge.targetHandle
         IN IF connectionExists THEN es ELSE Append(es, edge)

\* onConnect that appends the edge without asking whether the pair is connected
onConnectAlwaysAppending(s, source, target) ==
    LET s1 == addToHistory(s)
    IN [s1 EXCEPT !.edges =
           Append(s1.edges,
                  [id |-> "reactflow__edge-" \o source \o "-" \o target,
                   source |-> source, target |-> target,
                   sourceHandle |-> null, targetHandle |-> null,
                   type |-> s1.edgeStyle, animated |-> FALSE,
                   style |-> edgeStyleObject(s1.edgeColor, s1.edgeLineStyle)])]

onConnect(s, source, target) ==
    LET s1 == addToHistory(s)
    IN [s1 EXCEPT !.edges =
           addEdge([source |-> source, target |-> target,
                    sourceHandle |-> null, targetHandle |-> null,
                    type |-> s1.edgeStyle, animated |-> FALSE,
                    style |-> edgeStyleObject(s1.edgeColor, s1.edgeLineStyle)],
                   s1.edges)]

\* the position with the spacing of the branch layout in the stacked layout too
newNodePositionOneSpacing(ns, es, parentId, layoutType, rnd) ==
    LET parentIndex == findIndex(ns, LAMBDA n : n.id = parentId)
        childCount == Cardinality({i \in 1..Len(es) : es[i].source = parentId})
        window == [x |-> WindowInnerWidth \div 2 - 75, y |-> WindowInnerHeight \div 2 - 25]
    IN IF parentId # undefined
       THEN IF parentIndex # 0
            THEN LET parentNode == ns[parentIndex]
                 IN IF layoutType # "stacked"
                    THEN [x |-> parentNode.position.x + HORIZONTAL_OFFSET + rnd,
                          y |-> parentNode.position.y + (childCount * 40) - 20]
                    ELSE [x |-> parentNode.position.x + HORIZONTAL_OFFSET,
                          y |-> parentNode.position.y + (childCount * 40)]
            ELSE window
       ELSE IF Len(ns) > 0
            THEN [x |-> ns[Len(ns)].position.x + 50, y |-> ns[Len(ns)].position.y + 50]
            ELSE window

\* the position addNode computes; rnd is Math.random() * 50
newNodePosition(ns, es, parentId, layoutType, rnd) ==
    LET parentIndex == findIndex(ns, LAMBDA n : n.id = parentId)
        childCount == Cardinality({i \in 1..Len(es) : es[i].source = parentId})
        window == [x |-> WindowInnerWidth \div 2 - 75, y |-> WindowInnerHeight \div 2 - 25]
    IN IF parentId # undefined
       THEN IF parentIndex # 0
            THEN LET parentNode == ns[parentIndex]
                 IN IF layoutType # "stacked"
                    THEN [x |-> parentNode.position.x + HORIZONTAL_OFFSET + rnd,
                          y |-> parentNode.position.y + (childCount * 40) - 20]
                    ELSE [x |-> parentNode.position.x + HORIZONTAL_OFFSET,
                          y |-> parentNode.position.y + (childCount * VERTICAL_SPACING)]
            ELSE window
       ELSE IF Len(ns) > 0
            THEN [x |-> ns[Len(ns)].position.x + 50, y |-> ns[Len(ns)].position.y + 50]
            ELSE window

\* the largest order of a sibling, without the increment
newNodeOrderWithoutIncrement(ns, es, parentId) ==
    LET siblingTargets == {es[i].target : i \in {j \in 1..Len(es) : es[j].source = parentId}}
        siblingNodes == {i \in 1..Len(ns) : ns[i].id \in siblingTargets}
    IN Max({Get(ns[i].data, "order", 0) : i \in siblingNodes}, 0)

\* the order addNode gives a stacked child: 1 + the largest order of a sibling
newNodeOrder(ns, es, parentId) ==
    LET siblingTargets == {es[i].target : i \in {j \in 1..Len(es) : es[j].source = parentId}}
        siblingNodes == {i \in 1..Len(ns) : ns[i].id \in siblingTargets}
        maxOrder == Max({Get(ns[i].data, "order", 0) : i \in siblingNodes}, 0)
    IN maxOrder + 1

\* addNode that pushes the new node onto the node array it found, so that a
\* saved map holding that array gets the node too
addNodePushingInPlace(s, t, rnd, parentId, nodeType, layoutType) ==
    LET s1 == addToHistory(s)
        counter == s1.nodeIdCounter + 1
        newNodeId == generateNodeId(counter, t)
        base == [label |-> IF nodeType = "image" THEN "Image" ELSE "New Node",
                 color |-> "blue", nodeType |-> nodeType,
                 layoutType |-> layoutType, topics |-> << >>]
        data == IF parentId # undefined /\ layoutType = "stacked"
                THEN Spread(base, [order |-> newNodeOrder(s1.nodes, s1.edges, parentId)])
                ELSE base
        newNode == [id |-> newNodeId, type |-> "mindMapNode",
                    position |-> newNodePosition(s1.nodes, s1.edges, parentId, layoutType, rnd),
                    data |-> data]
        newEdge == [id |-> "edge-" \o parentId \o "-" \o newNodeId,
                    source |-> parentId, target |-> newNodeId,
                    type |-> IF layoutType = "stacked" THEN "mindmap" ELSE s1.edgeStyle,
                    animated |-> FALSE,
                    style |-> edgeStyleObject(s1.edgeColor, s1.edgeLineStyle)]
    IN [s1 EXCEPT !.nodes = Append(s1.nodes, newNode),
                  !.edges = IF parentId # undefined THEN Append(s1.edges, newEdge) ELSE s1.edges,
                  !.selectedNodeId = newNodeId,
                  !.nodeIdCounter = counter,
                  !.savedMaps = Map(s1.savedMaps, LAMBDA m :
                      IF m.nodes = s1.nodes
                      THEN [m EXCEPT !.nodes = Append(s1.nodes, newNode)]
                      ELSE m)]

\* addNode(parentId, nodeType, layoutType) at clock value t
addNode(s, t, rnd, parentId, nodeType, layoutType) ==
    LET s1 == addToHistory(s)
        counter == s1.nodeIdCounter + 1
        newNodeId == generateNodeId(counter, t)
        base == [label |-> IF nodeType = "image" THEN "Image" ELSE "New Node",
                 color |-> "blue", nodeType |-> nodeType,
                 layoutType |-> layoutType, topics |-> << >>]
        data == IF parentId # undefined /\ layoutType = "stacked"
                THEN Spread(base, [order |-> newNodeOrder(s1.nodes, s1.edges, parentId)])
                ELSE base
        newNode == [id |-> newNodeId, type |-> "mindMapNode",
                    position |-> newNodePosition(s1.nodes, s1.edges, parentId, layoutType, rnd),
                    data |-> data]
        newEdge == [id |-> "edge-" \o parentId \o "-" \o newNodeId,
                    source |-> parentId, target |-> newNodeId,
                    type |-> IF layoutType = "stacked" THEN "mindmap" ELSE s1.edgeStyle,
                    animated |-> FALSE,
                    style |-> edgeStyleObject(s1.edgeColor, s1.edgeLineStyle)]
    IN [s1 EXCEPT !.nodes = Append(s1.nodes, newNode),
                  !.edges = IF parentId # undefined THEN Append(s1.edges, newEdge) ELSE s1.edges,
                  !.selectedNodeId = newNodeId,
                  !.nodeIdCounter = counter]

isTextInput(data) == Has(data, "label") \/ Has(data, "description")

\* updateNodeData that replaces the data of the node by the partial data
updateNodeDataWithoutMerge(s, nodeId, data) ==
    LET s1 == IF ~isTextInput(data) THEN addToHistory(s) ELSE s
    IN [s1 EXCEPT !.nodes =
           Map(s1.nodes, LAMBDA node :
               IF node.id = nodeId
               THEN [node EXCEPT !.data = data]
               ELSE node)]

updateNodeData(s, nodeId, data) ==
    LET s1 == IF ~isTextInput(data) THEN addToHistory(s) ELSE s
    IN [s1 EXCEPT !.nodes =
           Map(s1.nodes, LAMBDA node :
               IF node.id = nodeId
               THEN [node EXCEPT !.data = Spread(node.data, data)]
               ELSE node)]

saveHistory(s) == addToHistory(s)

\* deleteNode that filters the edges by their source only
deleteNodeKeepingIncoming(s, nodeId) ==
    IF nodeId = "root" THEN s
    ELSE LET s1 == addToHistory(s)
         IN [s1 EXCEPT !.nodes = SelectSeq(s1.nodes, LAMBDA n : n.id # nodeId),
                       !.edges = SelectSeq(s1.edges, LAMBDA e : e.source # nodeId),
                       !.selectedNodeId = null]

deleteNode(s, nodeId) ==
    IF nodeId = "root" THEN s
    ELSE LET s1 == addToHistory(s)
         IN [s1 EXCEPT !.nodes = SelectSeq(s1.nodes, LAMBDA n : n.id # nodeId),
                       !.edges = SelectSeq(s1.edges,
                                     LAMBDA e : e.source # nodeId /\ e.target # nodeId),
                       !.selectedNodeId = null]

setSelectedNode(s, nodeId) == [s EXCEPT !.selectedNodeId = nodeId]

setMapName(s, name) == [s EXCEPT !.mapName = name]

\* setEdgeStyle that sets the default and leaves the existing edges
setEdgeStyleDefaultOnly(s, style) ==
    LET s1 == addToHistory(s)
    IN [s1 EXCEPT !.edgeStyle = style]

setEdgeStyle(s, style) ==
    LET s1 == addToHistory(s)
    IN [s1 EXCEPT !.edgeStyle = style,
                  !.edges = Map(s1.edges, LAMBDA edge : Spread(edge, [type |-> style]))]

setEdgeColor(s, color) ==
    LET s1 == addToHistory(s)
    IN [s1 EXCEPT !.edgeColor = color,
                  !.edges = Map(s1.edges, LAMBDA edge :
                      Spread(edge, [style |-> Spread(Get(edge, "style", << >>),
                                                     [stroke |-> color])]))]

setEdgeLineStyle(s, style) ==
    LET s1 == addToHistory(s)
    IN [s1 EXCEPT !.edgeLineStyle = style,
                  !.edges = Map(s1.edges, LAMBDA edge :
                      Spread(edge, [style |->
                          IF style = "dashed"
                          THEN Spread(Get(edge, "style", << >>), [strokeDasharray |-> "5,5"])
                          ELSE Without(Get(edge, "style", << >>), "strokeDasharray")]))]

-----------------------------------------------------------------------------
(* Collapse *)

\* the ids getDescendants takes as the children of parentId: the targets of the
\* edges from parentId that name a node, at the first level only the stacked ones
validChildren(ns, es, parentId, isFirstLevel) ==
    LET childrenEdges == SelectSeq(es, LAMBDA e : e.source = parentId)
        found == SelectSeq(childrenEdges,
                     LAMBDA e : findIndex(ns, LAMBDA n : n.id = e.target) # 0)
        childrenNodes == Map(found, LAMBDA e : ns[findIndex(ns, LAMBDA n : n.id = e.target)])
        kept == IF isFirstLevel
                THEN SelectSeq(childrenNodes,
                         LAMBDA n : Get(n.data, "layoutType", undefined) = "stacked")
                ELSE childrenNodes
    IN Map(kept, LAMBDA n : n.id)

\* getDescendants never returns when its walk meets a cycle of edges: the calls
\* nest without end and the engine throws RangeError.  A chain of calls longer
\* than the node list repeats a node, so the walk overflows exactly when a chain
\* of `fuel` nested calls exists, for fuel = Len(ns) + 1.
RECURSIVE walkOverflows(_, _, _, _, _)
walkOverflows(ns, es, parentId, isFirstLevel, fuel) ==
    IF fuel = 0 THEN TRUE
    ELSE \E c \in Range(validChildren(ns, es, parentId, isFirstLevel)) :
             walkOverflows(ns, es, c, FALSE, fuel - 1)

RECURSIVE getDescendants(_, _, _, _), descendantsOfEach(_, _, _, _)
\* the forEach of getDescendants: the descendants of children[i], children[i+1], ...
descendantsOfEach(ns, es, children, i) ==
    IF i > Len(children) THEN << >>
    ELSE getDescendants(ns, es, children[i], FALSE) \o descendantsOfEach(ns, es, children, i + 1)

getDescendants(ns, es, parentId, isFirstLevel) ==
    LET children == validChildren(ns, es, parentId, isFirstLevel)
    IN children \o descendantsOfEach(ns, es, children, 1)

\* the node with its data.collapsed set, without the spread of its other data
setCollapsedWithoutSpread(node, isCollapsed) ==
    Spread(node, [data |-> [collapsed |-> isCollapsed]])

\* the callback of the first map of toggleCollapse: { ...node, data: { ...node.data, collapsed } }
setCollapsed(node, isCollapsed) ==
    Spread(node, [data |-> Spread(node.data, [collapsed |-> isCollapsed])])

toggleCollapse(s, nodeId) ==
    LET s1 == addToHistory(s)
        ns == s1.nodes
        es == s1.edges
        nodeIndex == findIndex(ns, LAMBDA n : n.id = nodeId)
    IN IF nodeIndex = 0 THEN s1
       ELSE IF walkOverflows(ns, es, nodeId, TRUE, Len(ns) + 1) THEN s1
       ELSE LET node == ns[nodeIndex]
                isCollapsed == ~Get(node.data, "collapsed", FALSE)
                withCollapsed ==
                    [ns EXCEPT ![nodeIndex] = setCollapsed(node, isCollapsed)]
                descendantIds == Range(getDescendants(ns, es, nodeId, TRUE))
                updatedNodes ==
                    [i \in 1..Len(ns) |->
                        IF /\ withCollapsed[i].id \in descendantIds
                           /\ findIndex(withCollapsed, LAMBDA n : n.id = withCollapsed[i].id) = i
                        THEN Spread(withCollapsed[i], [hidden |-> isCollapsed])
                        ELSE withCollapsed[i]]
                updatedEdges ==
                    Map(es, LAMBDA edge :
                        IF edge.target \in descendantIds
                        THEN Spread(edge, [hidden |-> isCollapsed])
                        ELSE edge)
            IN [s1 EXCEPT !.nodes = updatedNodes, !.edges = updatedEdges]

\* addSibling that passes the node itself, not its parent, to addNode
addSiblingUnderNode(s, t, rnd, nodeId) ==
    LET s1 == addToHistory(s)
        parentEdge == findIndex(s1.edges, LAMBDA e : e.target = nodeId)
    IN IF parentEdge # 0
       THEN addNode(s1, t, rnd, nodeId, "text", "default")
       ELSE IF nodeId # "root"
            THEN addNode(s1, t, rnd, undefined, "text", "default")
            ELSE s1

addSibling(s, t, rnd, nodeId) ==
    LET s1 == addToHistory(s)
        parentEdge == findIndex(s1.edges, LAMBDA e : e.target = nodeId)
    IN IF parentEdge # 0
       THEN addNode(s1, t, rnd, s1.edges[parentEdge].source, "text", "default")
       ELSE IF nodeId # "root"
            THEN addNode(s1, t, rnd, undefined, "text", "default")
            ELSE s1

-----------------------------------------------------------------------------
(* Topics *)

\* the node a topic handler works on: 0 when nodes.find gives undefined
findNode(s, nodeId) == findIndex(s.nodes, LAMBDA n : n.id = nodeId)

addTopic(s, t, rnd, nodeId) ==
    LET s1 == addToHistory(s)
        i == findNode(s1, nodeId)
    IN IF i = 0 THEN s1
       ELSE LET topics == Get(s1.nodes[i].data, "topics", << >>)
                newTopic == [id |-> "topic-" \o ToString(t) \o "-" \o rnd,
                             label |-> "New Topic", subTopics |-> << >>]
            IN updateNodeData(s1, nodeId, [topics |-> Append(topics, newTopic)])

updateTopic(s, nodeId, topicId, label) ==
    LET s1 == addToHistory(s)
        i == findNode(s1, nodeId)
    IN IF i = 0 \/ ~Has(s1.nodes[i].data, "topics") THEN s1
       ELSE updateNodeData(s1, nodeId,
                [topics |-> Map(s1.nodes[i].data.topics, LAMBDA topic :
                    IF topic.id = topicId THEN Spread(topic, [label |-> label]) ELSE topic)])

deleteTopic(s, nodeId, topicId) ==
    LET s1 == addToHistory(s)
        i == findNode(s1, nodeId)
    IN IF i = 0 \/ ~Has(s1.nodes[i].data, "topics") THEN s1
       ELSE updateNodeData(s1, nodeId,
                [topics |-> SelectSeq(s1.nodes[i].data.topics,
                                LAMBDA topic : topic.id # topicId)])

addSubTopic(s, t, rnd, nodeId, topicId) ==
    LET s1 == addToHistory(s)
        i == findNode(s1, nodeId)
        newSubTopic == [id |-> "subtopic-" \o ToString(t) \o "-" \o rnd,
                        label |-> "New Sub-topic"]
    IN IF i = 0 \/ ~Has(s1.nodes[i].data, "topics") THEN s1
       ELSE updateNodeData(s1, nodeId,
                [topics |-> Map(s1.nodes[i].data.topics, LAMBDA topic :
                    IF topic.id = topicId
                    THEN Spread(topic, [subTopics |-> Append(topic.subTopics, newSubTopic)])
                    ELSE topic)])

updateSubTopic(s, nodeId, topicId, subTopicId, label) ==
    LET s1 == addToHistory(s)
        i == findNode(s1, nodeId)
    IN IF i = 0 \/ ~Has(s1.nodes[i].data, "topics") THEN s1
       ELSE updateNodeData(s1, nodeId,
                [topics |-> Map(s1.nodes[i].data.topics, LAMBDA topic :
                    IF topic.id = topicId
                    THEN Spread(topic, [subTopics |->
                             Map(topic.subTopics, LAMBDA st :
                                 IF st.id = subTopicId THEN Spread(st, [label |-> label]) ELSE st)])
                    ELSE topic)])

deleteSubTopic(s, nodeId, topicId, subTopicId) ==
    LET s1 == addToHistory(s)
        i == findNode(s1, nodeId)
    IN IF i = 0 \/ ~Has(s1.nodes[i].data, "topics") THEN s1
       ELSE updateNodeData(s1, nodeId,
                [topics |-> Map(s1.nodes[i].data.topics, LAMBDA topic :
                    IF topic.id = topicId
                    THEN Spread(topic, [subTopics |->
                             SelectSeq(topic.subTopics, LAMBDA st : st.id # subTopicId)])
                    ELSE topic)])

-----------------------------------------------------------------------------
(* Map repository, export and import *)

clearMap(s, t, rnd) ==
    LET s1 == addToHistory(s)
    IN [s1 EXCEPT !.nodeIdCounter = 1,
                  !.nodes = initialNodes,
                  !.edges = initialEdges,
                  !.selectedNodeId = null,
                  !.mapName = "Untitled Mind Map",
                  !.mapId = generateMapId(t, rnd)]

createNewMap(s, t, rnd) ==
    LET s1 == addToHistory(s)
    IN [s1 EXCEPT !.nodeIdCounter = 1,
                  !.nodes = initialNodes,
                  !.edges = initialEdges,
                  !.selectedNodeId = null,
                  !.mapName = "Untitled Mind Map",
                  !.mapId = generateMapId(t, rnd)]

\* A JSON text is the value it parses to, [parses |-> TRUE, value |-> v], or a
\* text JSON.parse throws on, [parses |-> FALSE].  JSON.stringify keeps strings,
\* numbers, booleans, null, arrays and the defined keys of objects, which is
\* every value the store holds.
JSONstringify(v) == [parses |-> TRUE, value |-> v]

exportToJson(s) ==
    JSONstringify([nodes |-> s.nodes, edges |-> s.edges, mapName |-> s.mapName,
                   edgeStyle |-> s.edgeStyle, edgeColor |-> s.edgeColor,
                   edgeLineStyle |-> s.edgeLineStyle])

\* x || d for a string x
OrElse(x, d) == IF x = undefined THEN d ELSE x

\* importFromJson without the test of data.nodes && data.edges
importFromJsonWithoutGuard(s, json) ==
    LET s1 == addToHistory(s)
    IN IF ~json.parses THEN s1
       ELSE LET data == json.value
            IN [s1 EXCEPT
                   !.nodes = Get(data, "nodes", << >>),
                   !.edges = Get(data, "edges", << >>),
                   !.mapName = OrElse(Get(data, "mapName", undefined), "Imported Mind Map"),
                   !.edgeStyle = OrElse(Get(data, "edgeStyle", undefined), "smoothstep"),
                   !.edgeColor = OrElse(Get(data, "edgeColor", undefined),
                                        "hsl(var(--edge-primary))"),
                   !.edgeLineStyle = OrElse(Get(data, "edgeLineStyle", undefined), "solid"),
                   !.selectedNodeId = null]

importFromJson(s, json) ==
    LET s1 == addToHistory(s)
    IN IF ~json.parses THEN s1
       ELSE LET data == json.value
            IN IF Has(data, "nodes") /\ Has(data, "edges")
               THEN [s1 EXCEPT
                        !.nodes = data.nodes,
                        !.edges = data.edges,
                        !.mapName = OrElse(Get(data, "mapName", undefined), "Imported Mind Map"),
                        !.edgeStyle = OrElse(Get(data, "edgeStyle", undefined), "smoothstep"),
                        !.edgeColor = OrElse(Get(data, "edgeColor", undefined),
                                             "hsl(var(--edge-primary))"),
                        !.edgeLineStyle = OrElse(Get(data, "edgeLineStyle", undefined), "solid"),
                        !.selectedNodeId = null]
               ELSE s1

\* saveCurrentMap that appends the entry without looking for the map id
saveCurrentMapAppending(s, t) ==
    [s EXCEPT !.savedMaps =
        Append(s.savedMaps, [id |-> s.mapId, name |-> s.mapName, createdAt |-> t,
                             updatedAt |-> t, nodes |-> s.nodes, edges |-> s.edges])]

saveCurrentMap(s, t) ==
    LET existingIndex == findIndex(s.savedMaps, LAMBDA m : m.id = s.mapId)
        mapData == [id |-> s.mapId, name |-> s.mapName,
                    createdAt |-> IF existingIndex # 0
                                  THEN s.savedMaps[existingIndex].createdAt ELSE t,
                    updatedAt |-> t, nodes |-> s.nodes, edges |-> s.edges]
    IN IF existingIndex # 0
       THEN [s EXCEPT !.savedMaps = [s.savedMaps EXCEPT ![existingIndex] = mapData]]
       ELSE [s EXCEPT !.savedMaps = Append(s.savedMaps, mapData)]

\* loadMap that installs the saved graph and name and leaves mapId
loadMapKeepingId(s, id) ==
    LET i == findIndex(s.savedMaps, LAMBDA m : m.id = id)
    IN IF i # 0
       THEN LET s1 == addToHistory(s)
                map == s.savedMaps[i]
            IN [s1 EXCEPT !.nodes = map.nodes, !.edges = map.edges,
                          !.mapName = map.name, !.selectedNodeId = null]
       ELSE s

loadMap(s, id) ==
    LET i == findIndex(s.savedMaps, LAMBDA m : m.id = id)
    IN IF i # 0
       THEN LET s1 == addToHistory(s)
                map == s.savedMaps[i]
            IN [s1 EXCEPT !.nodes = map.nodes, !.edges = map.edges,
                          !.mapName = map.name, !.mapId = map.id,
                          !.selectedNodeId = null]
       ELSE s

\* deleteMap that also empties the history
deleteMapClearingHistory(s, id) ==
    [s EXCEPT !.savedMaps = SelectSeq(s.savedMaps, LAMBDA m : m.id # id),
              !.past = << >>, !.future = << >>]

deleteMap(s, id) ==
    [s EXCEPT !.savedMaps = SelectSeq(s.savedMaps, LAMBDA m : m.id # id)]

-----------------------------------------------------------------------------
(* Changes the rendering layer reports *)

\* reactflow applyNodeChanges for one change: 'remove' drops the node, 'position'
\* gives it the new position
applyNodeChanges(change, ns) ==
    IF change.type = "remove" THEN SelectSeq(ns, LAMBDA n : n.id # change.id)
    ELSE IF change.type = "position"
    THEN Map(ns, LAMBDA n :
             IF n.id = change.id THEN Spread(n, [position |-> change.position]) ELSE n)
    ELSE ns

\* reactflow applyEdgeChanges for one change
applyEdgeChanges(change, es) ==
    IF change.type = "remove" THEN SelectSeq(es, LAMBDA e : e.id # change.id)
    ELSE es

\* onNodesChange that saves the history before it applies the change
onNodesChangeSavingHistory(s, change) ==
    LET s1 == addToHistory(s)
    IN [s1 EXCEPT !.nodes = applyNodeChanges(change, s1.nodes)]

onNodesChange(s, change) == [s EXCEPT !.nodes = applyNodeChanges(change, s.nodes)]

onEdgesChange(s, change) == [s EXCEPT !.edges = applyEdgeChanges(change, s.edges)]

-----------------------------------------------------------------------------
(* Inputs *)

\* the values of Math.random() * 50 the model draws
RandomJitter == {0, 37}
\* the values of Math.random().toString(36).substring(2, 9) the model draws
RandomSuffixes == {"k3x9q2a"}
\* the (nodeType, layoutType) pairs the components call addNode with
AddNodeKinds == {<<"text", "default">>, <<"text", "stacked">>, <<"image", "default">>}
\* the partial data the components call updateNodeData with
PartialData ==
    {[label |-> "Edited"], [color |-> "purple"], [label |-> "Edited", color |-> "purple"]}
MapNames == {"", "Plan"}
EdgeStyles == {"smoothstep", "straight"}
EdgeColors == {"hsl(var(--edge-primary))", "#ef4444"}
EdgeLineStyles == {"solid", "dashed"}
DragPositions == {[x |-> 0, y |-> 0]}

NodeIds(s) == {s.nodes[i].id : i \in 1..Len(s.nodes)}
EdgeIds(s) == {s.edges[i].id : i \in 1..Len(s.edges)}
\* the node ids a component can pass: the ids on the canvas and the selection,
\* which may name a node that is gone
IdArgs == NodeIds(Store) \cup ({selectedNodeId} \ {null})
TopicIds(s) ==
    UNION {{tp.id : tp \in Range(Get(s.nodes[i].data, "topics", << >>))} : i \in 1..Len(s.nodes)}
SubTopicIds(s) ==
    UNION {UNION {{st.id : st \in Range(tp.subTopics)} :
                  tp \in Range(Get(s.nodes[i].data, "topics", << >>))} : i \in 1..Len(s.nodes)}
ImportedTopics ==
    << [id |-> "topic-7-q1w2e3r", label |-> "Goals",
        subTopics |-> << [id |-> "subtopic-8-a5s6d7f", label |-> "First"] >>] >>
\* the texts importFromJson is given: a text that does not parse, an object
\* without edges, an object without nodes, an empty graph,
\* a map whose root has a topic with a sub-topic, and the export of the current map
ImportTexts ==
    {[parses |-> FALSE],
     JSONstringify([nodes |-> initialNodes]),
     JSONstringify([edges |-> initialEdges, mapName |-> "Plan"]),
     JSONstringify([nodes |-> << >>, edges |-> << >>]),
     JSONstringify([nodes |-> Map(initialNodes, LAMBDA n :
                                 Spread(n, [data |-> Spread(n.data, [topics |-> ImportedTopics])])),
                    edges |-> << >>, mapName |-> "Plan"]),
     exportToJson(Store)}

-----------------------------------------------------------------------------
(* The state machine *)

Init ==
    /\ nodes = initialNodes
    /\ edges = initialEdges
    /\ selectedNodeId = null
    /\ mapName = "Untitled Mind Map"
    /\ now = 0
    /\ mapId \in {generateMapId(0, rnd) : rnd \in RandomSuffixes}
    /\ edgeStyle = "smoothstep"
    /\ edgeColor = "hsl(var(--edge-primary))"
    /\ edgeLineStyle = "solid"
    /\ savedMaps = << >>
    /\ past = << >>
    /\ future = << >>
    /\ nodeIdCounter = 1
    /\ lastOp = [name |-> "create"]
    /\ calls = 0
    /\ run = [log |-> << >>, undos |-> 0]
    /\ capturedIn = [past |-> << >>, future |-> << >>]

\* the store holds the record s
Install(s) ==
    /\ nodes' = s.nodes
    /\ edges' = s.edges
    /\ selectedNodeId' = s.selectedNodeId
    /\ mapName' = s.mapName
    /\ mapId' = s.mapId
    /\ edgeStyle' = s.edgeStyle
    /\ edgeColor' = s.edgeColor
    /\ edgeLineStyle' = s.edgeLineStyle
    /\ savedMaps' = s.savedMaps
    /\ past' = s.past
    /\ future' = s.future
    /\ nodeIdCounter' = s.nodeIdCounter

TopicCount(s) ==
    Max({Len(Get(s.nodes[i].data, "topics", << >>)) : i \in 1..Len(s.nodes)}, 0)
SubTopicCount(s) ==
    Max(UNION {{Len(tp.subTopics) : tp \in Range(Get(s.nodes[i].data, "topics", << >>))} :
               i \in 1..Len(s.nodes)}, 0)

\* the calls that push a history snapshot count towards a streak; an undo right
\* after a streak is counted; every other call ends the streak
RunAfter(name, s) ==
    IF name = "undo"
    THEN IF run.undos < Len(run.log)
         THEN [run EXCEPT !.undos = @ + 1]
         ELSE [log |-> << >>, undos |-> 0]
    ELSE IF name # "redo" /\ Len(s.past) > Len(past)
    THEN [log |-> IF run.undos = 0 THEN Append(run.log, Snapshot(Store))
                  ELSE << Snapshot(Store) >>,
          undos |-> 0]
    ELSE [log |-> << >>, undos |-> 0]

\* undo and redo move the mapId of the entry they pop away and record the
\* current mapId for the entry they push; every other call records the mapId it
\* found for each entry it pushes (addToHistory runs before any write of mapId)
\* and, having pushed, empties future
CapturedAfter(name, s) ==
    LET cp == capturedIn.past
        cf == capturedIn.future
    IN IF name = "undo"
       THEN IF Len(past) = 0 THEN capturedIn
            ELSE [past |-> SubSeq(cp, 1, Len(cp) - 1), future |-> Append(cf, mapId)]
       ELSE IF name = "redo"
       THEN IF Len(future) = 0 THEN capturedIn
            ELSE [past |-> Append(cp, mapId), future |-> SubSeq(cf, 1, Len(cf) - 1)]
       ELSE IF Len(s.past) > Len(past)
       THEN [past |-> cp \o [i \in 1..(Len(s.past) - Len(past)) |-> mapId], future |-> << >>]
       ELSE capturedIn

\* one handler call that leaves the store holding s
Call(name, args, s) ==
    /\ Install(s)
    /\ now' = now
    /\ lastOp' = [name |-> name, args |-> args]
    /\ calls' = IF calls <= Max({MaxCalls, MaxMapCalls}, 0) THEN calls + 1 ELSE calls
    /\ run' = RunAfter(name, s)
    /\ capturedIn' = CapturedAfter(name, s)

\* the clock advances between two calls
Tick ==
    /\ now < MaxClock
    /\ now' = now + 1
    /\ UNCHANGED <<nodes, edges, selectedNodeId, mapName, mapId, edgeStyle, edgeColor,
                   edgeLineStyle, savedMaps, past, future, nodeIdCounter, lastOp, calls, run,
                   capturedIn>>

Undo == Call("undo", << >>, undo(Store))

Redo == Call("redo", << >>, redo(Store))

SaveHistory == Call("saveHistory", << >>, saveHistory(Store))

OnNodesChange ==
    \E id \in NodeIds(Store) :
        \/ Call("onNodesChange", <<"remove", id>>,
                onNodesChange(Store, [type |-> "remove", id |-> id]))
        \/ \E p \in DragPositions :
               Call("onNodesChange", <<"position", id>>,
                    onNodesChange(Store, [type |-> "position", id |-> id, position |-> p]))

OnEdgesChange ==
    \E id \in EdgeIds(Store) :
        Call("onEdgesChange", <<"remove", id>>,
             onEdgesChange(Store, [type |-> "remove", id |-> id]))

OnConnect ==
    \E source \in NodeIds(Store), target \in NodeIds(Store) :
        Call("onConnect", <<source, target>>, onConnect(Store, source, target))

AddNode ==
    \E parentId \in IdArgs \cup {undefined}, kind \in AddNodeKinds,
       rnd \in RandomJitter :
        Call("addNode", <<parentId, kind[1], kind[2]>>,
             addNode(Store, now, rnd, parentId, kind[1], kind[2]))

UpdateNodeData ==
    \E id \in IdArgs, data \in PartialData :
        Call("updateNodeData", <<id, data>>, updateNodeData(Store, id, data))

DeleteNode ==
    \E id \in IdArgs :
        Call("deleteNode", <<id>>, deleteNode(Store, id))

SetSelectedNode ==
    \E id \in NodeIds(Store) \cup {null} :
        Call("setSelectedNode", <<id>>, setSelectedNode(Store, id))

SetMapName ==
    \E name \in MapNames :
        Call("setMapName", <<name>>, setMapName(Store, name))

SetEdgeStyle ==
    \E style \in EdgeStyles :
        Call("setEdgeStyle", <<style>>, setEdgeStyle(Store, style))

SetEdgeColor ==
    \E color \in EdgeColors :
        Call("setEdgeColor", <<color>>, setEdgeColor(Store, color))

SetEdgeLineStyle ==
    \E style \in EdgeLineStyles :
        Call("setEdgeLineStyle", <<style>>, setEdgeLineStyle(Store, style))

ToggleCollapse ==
    \E id \in IdArgs :
        Call("toggleCollapse", <<id>>, toggleCollapse(Store, id))

AddSibling ==
    \E id \in IdArgs, rnd \in RandomJitter :
        Call("addSibling", <<id>>, addSibling(Store, now, rnd, id))

AddTopic ==
    \E id \in IdArgs, rnd \in RandomSuffixes :
        Call("addTopic", <<id>>, addTopic(Store, now, rnd, id))

UpdateTopic ==
    \E id \in IdArgs, topicId \in TopicIds(Store) :
        Call("updateTopic", <<id, topicId>>, updateTopic(Store, id, topicId, "Edited"))

DeleteTopic ==
    \E id \in IdArgs, topicId \in TopicIds(Store) :
        Call("deleteTopic", <<id, topicId>>, deleteTopic(Store, id, topicId))

AddSubTopic ==
    \E id \in IdArgs, topicId \in TopicIds(Store), rnd \in RandomSuffixes :
        Call("addSubTopic", <<id, topicId>>, addSubTopic(Store, now, rnd, id, topicId))

UpdateSubTopic ==
    \E id \in IdArgs, topicId \in TopicIds(Store), subTopicId \in SubTopicIds(Store) :
        Call("updateSubTopic", <<id, topicId, subTopicId>>,
             updateSubTopic(Store, id, topicId, subTopicId, "Edited"))

DeleteSubTopic ==
    \E id \in IdArgs, topicId \in TopicIds(Store), subTopicId \in SubTopicIds(Store) :
        Call("deleteSubTopic", <<id, topicId, subTopicId>>,
             deleteSubTopic(Store, id, topicId, subTopicId))

ClearMap ==
    \E rnd \in RandomSuffixes :
        Call("clearMap", << >>, clearMap(Store, now, rnd))

CreateNewMap ==
    \E rnd \in RandomSuffixes :
        Call("createNewMap", << >>, createNewMap(Store, now, rnd))

ImportFromJson ==
    \E json \in ImportTexts :
        Call("importFromJson",
             <<json.parses, json.parses /\ Has(json.value, "nodes"),
               json.parses /\ Has(json.value, "edges")>>,
             importFromJson(Store, json))

SaveCurrentMap == Call("saveCurrentMap", << >>, saveCurrentMap(Store, now))

LoadMap ==
    \E id \in {savedMaps[i].id : i \in 1..Len(savedMaps)} \cup {mapId} :
        Call("loadMap", <<id>>, loadMap(Store, id))

DeleteMap ==
    \E id \in {savedMaps[i].id : i \in 1..Len(savedMaps)} \cup {mapId} :
        Call("deleteMap", <<id, \E i \in 1..Len(savedMaps) : savedMaps[i].id = id>>,
             deleteMap(Store, id))

-----------------------------------------------------------------------------
(* Specifications.  The store has no bound of its own; each specification
   keeps the calls whose result stays within its bounds. *)

Within(n, e, h, c) ==
    /\ Len(nodes) <= n
    /\ Len(edges) <= e
    /\ Len(past) + Len(future) <= h
    /\ nodeIdCounter <= c

\* Editing the graph, with undo and redo
EditBounds == Within(MaxNodes, MaxEdges, MaxHistory, MaxIdCounter)

Next ==
    \/ Undo /\ EditBounds'
    \/ Redo /\ EditBounds'
    \/ AddNode /\ EditBounds'
    \/ DeleteNode /\ EditBounds'
    \/ OnConnect /\ EditBounds'
    \/ ToggleCollapse /\ EditBounds'
    \/ AddSibling /\ EditBounds'

Spec == Init /\ [][Next]_vars

\* Every handler, in sessions of at most MaxCalls calls
SessionBounds == calls <= MaxCalls

NextSession ==
    \/ Undo /\ SessionBounds'
    \/ Redo /\ SessionBounds'
    \/ SaveHistory /\ SessionBounds'
    \/ OnNodesChange /\ SessionBounds'
    \/ OnEdgesChange /\ SessionBounds'
    \/ OnConnect /\ SessionBounds'
    \/ AddNode /\ SessionBounds'
    \/ UpdateNodeData /\ SessionBounds'
    \/ DeleteNode /\ SessionBounds'
    \/ SetSelectedNode /\ SessionBounds'
    \/ SetMapName /\ SessionBounds'
    \/ SetEdgeStyle /\ SessionBounds'
    \/ SetEdgeColor /\ SessionBounds'
    \/ SetEdgeLineStyle /\ SessionBounds'
    \/ ToggleCollapse /\ SessionBounds'
    \/ AddSibling /\ SessionBounds'
    \/ AddTopic /\ SessionBounds'
    \/ UpdateTopic /\ SessionBounds'
    \/ DeleteTopic /\ SessionBounds'
    \/ AddSubTopic /\ SessionBounds'
    \/ UpdateSubTopic /\ SessionBounds'
    \/ DeleteSubTopic /\ SessionBounds'
    \/ ClearMap /\ SessionBounds'
    \/ CreateNewMap /\ SessionBounds'
    \/ ImportFromJson /\ SessionBounds'
    \/ SaveCurrentMap /\ SessionBounds'
    \/ LoadMap /\ SessionBounds'
    \/ DeleteMap /\ SessionBounds'
    \/ Tick

SpecSession == Init /\ [][NextSession]_vars

\* The topic handlers on the initial map, with undo and redo
TopicBounds ==
    /\ Within(1, 0, MaxTopicHistory, 1)
    /\ TopicCount(Store) <= MaxTopics
    /\ SubTopicCount(Store) <= MaxTopics

NextTopics ==
    \/ Undo /\ TopicBounds'
    \/ Redo /\ TopicBounds'
    \/ AddTopic /\ TopicBounds'
    \/ UpdateTopic /\ TopicBounds'
    \/ DeleteTopic /\ TopicBounds'
    \/ AddSubTopic /\ TopicBounds'
    \/ UpdateSubTopic /\ TopicBounds'
    \/ DeleteSubTopic /\ TopicBounds'
    \/ ImportFromJson /\ TopicBounds'

SpecTopics == Init /\ [][NextTopics]_vars

\* The map handlers with addNode, undo and redo, while the clock advances
MapBounds ==
    /\ calls <= MaxMapCalls
    /\ Len(nodes) <= MaxNodes

NextMaps ==
    \/ Undo /\ MapBounds'
    \/ Redo /\ MapBounds'
    \/ AddNode /\ MapBounds'
    \/ ClearMap /\ MapBounds'
    \/ CreateNewMap /\ MapBounds'
    \/ SaveCurrentMap /\ MapBounds'
    \/ LoadMap /\ MapBounds'
    \/ DeleteMap /\ MapBounds'
    \/ Tick

SpecMaps == Init /\ [][NextMaps]_vars

\* The topic handlers on maps with loose nodes, with clearMap and undo
TopicMapBounds ==
    /\ Within(MaxNodes, 0, MaxTopicMapHistory, 2)
    /\ TopicCount(Store) <= MaxTopics
    /\ SubTopicCount(Store) <= 1

NextTopicMaps ==
    \/ Undo /\ TopicMapBounds'
    \/ AddNode /\ TopicMapBounds'
    \/ ClearMap /\ TopicMapBounds'
    \/ AddTopic /\ TopicMapBounds'
    \/ UpdateTopic /\ TopicMapBounds'
    \/ DeleteTopic /\ TopicMapBounds'
    \/ AddSubTopic /\ TopicMapBounds'
    \/ UpdateSubTopic /\ TopicMapBounds'
    \/ DeleteSubTopic /\ TopicMapBounds'

SpecTopicMaps == Init /\ [][NextTopicMaps]_vars

\* addNode and deleteNode only, within the bounds of the map specification
NextLayout ==
    \/ AddNode /\ MapBounds'
    \/ DeleteNode /\ MapBounds'

SpecLayout == Init /\ [][NextLayout]_vars

\* The handlers that write edges or the edge defaults, with undo and redo, in
\* sessions of at most MaxCalls calls
NextStyles ==
    \/ Undo /\ SessionBounds'
    \/ Redo /\ SessionBounds'
    \/ AddNode /\ SessionBounds'
    \/ OnConnect /\ SessionBounds'
    \/ DeleteNode /\ SessionBounds'
    \/ SetEdgeStyle /\ SessionBounds'
    \/ SetEdgeColor /\ SessionBounds'
    \/ SetEdgeLineStyle /\ SessionBounds'

SpecStyles == Init /\ [][NextStyles]_vars

-----------------------------------------------------------------------------
(* Claims *)

\* a step that is the handler call `name`
Called(name) == now' = now /\ lastOp'.name = name

SavedIds == {savedMaps[i].id : i \in 1..Len(savedMaps)}

\* a step that is a call of a handler that pushes a history snapshot before it
\* mutates: every handler that calls addToHistory, for the arguments with which
\* it does (deleteNode of a node other than root, updateNodeData of fields other
\* than label and description, loadMap of a saved map)
SnapshottingCall ==
    /\ now' = now
    /\ \/ lastOp'.name \in {"addNode", "onConnect", "toggleCollapse", "addSibling",
                            "addTopic", "updateTopic", "deleteTopic",
                            "addSubTopic", "updateSubTopic", "deleteSubTopic",
                            "setEdgeStyle", "setEdgeColor", "setEdgeLineStyle",
                            "importFromJson", "clearMap", "createNewMap"}
       \/ lastOp'.name = "deleteNode" /\ lastOp'.args[1] # "root"
       \/ lastOp'.name = "updateNodeData" /\ ~isTextInput(lastOp'.args[2])
       \/ lastOp'.name = "loadMap" /\ lastOp'.args[1] \in SavedIds

\* C1: after any history-snapshotting call, an undo made at once gives nodes and
\* edges the values they had just before the call.
C1_UndoRestoresPreState ==
    [][SnapshottingCall =>
           /\ undo(Store').nodes = nodes
           /\ undo(Store').edges = edges]_vars

\* C1 witness: a snapshotting call has changed the node list, and the snapshot
\* on top of past differs from the current nodes.
C1_Witness ==
    /\ lastOp.name \in {"addSibling", "addTopic", "importFromJson", "loadMap", "clearMap"}
    /\ Len(past) > 0
    /\ past[Len(past)].nodes # nodes

\* C2 (as claimed): after n consecutive history-snapshotting calls and then n
\* undo calls, nodes and edges are those before the first of the n calls and
\* future holds n entries.  run.log holds the states before the calls of the
\* streak, run.undos the undos made since.
C2_NUndosRestore ==
    run.undos >= 1 =>
        LET base == run.log[Len(run.log) - run.undos + 1]
        IN /\ nodes = base.nodes
           /\ edges = base.edges
           /\ Len(future) = run.undos

\* a step that is an undo call
UndoCall == Called("undo")

\* C3 (as claimed): a redo made at once after any undo call gives nodes and
\* edges the values they had before that undo; a snapshotting call made after
\* an undo leaves future empty, and redo then changes nothing.
C3_RedoAfterAnyUndo ==
    [][/\ UndoCall =>
              /\ redo(Store').nodes = nodes
              /\ redo(Store').edges = edges
       /\ (lastOp.name = "undo" /\ SnapshottingCall) =>
              /\ future' = << >>
              /\ redo(Store') = Store']_vars

\* C3 (amended): a redo made at once after an undo that found past non-empty
\* gives nodes and edges the values they had before that undo; a snapshotting
\* call made after an undo leaves future empty, and redo then changes nothing.
C3_RedoAfterEffectiveUndo ==
    [][/\ (UndoCall /\ Len(past) > 0) =>
              /\ redo(Store').nodes = nodes
              /\ redo(Store').edges = edges
       /\ (lastOp.name = "undo" /\ SnapshottingCall) =>
              /\ future' = << >>
              /\ redo(Store') = Store']_vars

\* C3 witness: an undo has replaced the node list; the state it left is on top
\* of future.
C3_Witness ==
    /\ lastOp.name = "undo"
    /\ Len(future) > 0
    /\ future[Len(future)].nodes # nodes

\* C4: deleteNode(id) for id other than root removes the nodes with that id and
\* the edges that have id as source or target and keeps every other node and
\* edge as it was, in order; deleteNode('root') changes neither nodes, edges,
\* the selection, past nor future.
C4_DeleteNodeExact ==
    [][Called("deleteNode") =>
           LET id == lastOp'.args[1]
           IN IF id = "root"
              THEN UNCHANGED <<nodes, edges, selectedNodeId, past, future>>
              ELSE /\ nodes' = SelectSeq(nodes, LAMBDA n : n.id # id)
                   /\ edges' = SelectSeq(edges, LAMBDA e : e.source # id /\ e.target # id)]_vars

\* C4 witness: deleteNode of a node other than root has removed a node and an
\* edge into it.
C4_Witness ==
    /\ lastOp.name = "deleteNode"
    /\ lastOp.args[1] # "root"
    /\ Len(past) > 0
    /\ Len(past[Len(past)].nodes) > Len(nodes)
    /\ Len(past[Len(past)].edges) > Len(edges)

\* C5 (as claimed): the node list holds exactly one node whose id is 'root'.
C5_ExactlyOneRoot ==
    Cardinality({i \in 1..Len(nodes) : nodes[i].id = "root"}) = 1

\* C6 (as claimed): the source and the target of every edge are ids of nodes in
\* the node list.
C6_NoDanglingEdges ==
    \A j \in 1..Len(edges) :
        /\ edges[j].source \in NodeIds(Store)
        /\ edges[j].target \in NodeIds(Store)

\* the flags, read as the components read them
Collapsed(node) == Get(node.data, "collapsed", FALSE)
Hidden(x) == Get(x, "hidden", FALSE)

NodeWithId(ns, id) == ns[findIndex(ns, LAMBDA n : n.id = id)]

\* the nodes that are targets of edges from a node of S
ChildrenOf(ns, es, S) ==
    {es[j].target : j \in {k \in 1..Len(es) :
        es[k].source \in S /\ \E i \in 1..Len(ns) : ns[i].id = es[k].target}}

RECURSIVE DescendantClosure(_, _, _)
DescendantClosure(ns, es, S) ==
    LET S2 == S \cup ChildrenOf(ns, es, S)
    IN IF S2 = S THEN S ELSE DescendantClosure(ns, es, S2)

\* the collapse cascade of n: the children of n whose layout is stacked, and
\* every descendant of those children
CascadeSet(ns, es, n) ==
    DescendantClosure(ns, es,
        {c \in ChildrenOf(ns, es, {n}) :
            Get(NodeWithId(ns, c).data, "layoutType", undefined) = "stacked"})

\* C7 (as claimed): toggleCollapse(n) flips the collapsed flag of n to c and
\* gives hidden = c to every node of the cascade of n and to every edge whose
\* target is in the cascade; the hidden flag of no other node or edge changes.
C7_ToggleHidesCascade ==
    [][(Called("toggleCollapse") /\ lastOp'.args[1] \in NodeIds(Store)) =>
           LET n == lastOp'.args[1]
               c == ~Collapsed(NodeWithId(nodes, n))
               set == CascadeSet(nodes, edges, n)
           IN /\ Len(nodes') = Len(nodes)
              /\ Len(edges') = Len(edges)
              /\ Collapsed(NodeWithId(nodes', n)) = c
              /\ \A i \in 1..Len(nodes) :
                     Hidden(nodes'[i]) = IF nodes[i].id \in set THEN c ELSE Hidden(nodes[i])
              /\ \A j \in 1..Len(edges) :
                     Hidden(edges'[j]) = IF edges[j].target \in set THEN c ELSE Hidden(edges[j])]_vars

\* some collapsed node has id in its cascade
Covered(id) ==
    \E i \in 1..Len(nodes) :
        Collapsed(nodes[i]) /\ id \in CascadeSet(nodes, edges, nodes[i].id)

\* C8 (as claimed): a node is hidden exactly when the cascade of some collapsed
\* node covers it, and an edge exactly when its target is covered.
C8_HiddenFollowsCollapsed ==
    /\ \A i \in 1..Len(nodes) : Hidden(nodes[i]) <=> Covered(nodes[i].id)
    /\ \A j \in 1..Len(edges) : Hidden(edges[j]) <=> Covered(edges[j].target)

Flags(s) ==
    << [i \in 1..Len(s.nodes) |-> <<Collapsed(s.nodes[i]), Hidden(s.nodes[i])>>],
       [j \in 1..Len(s.edges) |-> Hidden(s.edges[j])] >>

\* C9 (as claimed): from every reachable state, two toggleCollapse(n) calls in a
\* row leave the collapsed flag of n and the hidden flag of every node and edge
\* as they were.
C9_ToggleTwiceRestores ==
    \A n \in NodeIds(Store) :
        Flags(toggleCollapse(toggleCollapse(Store, n), n)) = Flags(Store)

\* a node without its hidden flag and without the collapsed flag of its data
Unflagged(node) ==
    Spread(Without(node, "hidden"), [data |-> Without(node.data, "collapsed")])

\* C10: toggleCollapse(n) keeps the number and order of nodes and edges; of a
\* node it changes at most hidden and, for the nodes with id n, data.collapsed
\* (so id, position, order and the other data stay); of an edge it changes at
\* most hidden (so id, source, target, type and style stay).
C10_ToggleFrame ==
    [][Called("toggleCollapse") =>
           LET n == lastOp'.args[1]
           IN /\ Len(nodes') = Len(nodes)
              /\ Len(edges') = Len(edges)
              /\ \A i \in 1..Len(nodes) :
                     /\ Unflagged(nodes'[i]) = Unflagged(nodes[i])
                     /\ nodes[i].id # n => nodes'[i].data = nodes[i].data
              /\ \A j \in 1..Len(edges) :
                     Without(edges'[j], "hidden") = Without(edges[j], "hidden")]_vars

\* C10 witness: a toggleCollapse has collapsed a node and hidden a stacked child
\* that has an order.
C10_Witness ==
    /\ lastOp.name = "toggleCollapse"
    /\ \E i \in 1..Len(nodes) : nodes[i].id = lastOp.args[1] /\ Collapsed(nodes[i])
    /\ \E i \in 1..Len(nodes) : Hidden(nodes[i]) /\ Has(nodes[i].data, "order")
    /\ \E j \in 1..Len(edges) : Hidden(edges[j])

\* C11 (as claimed): importFromJson(exportToJson()) gives the nodes, edges,
\* mapName, edgeStyle, edgeColor and edgeLineStyle the store held and sets
\* selectedNodeId to null, whatever map name the store holds.
C11_ExportImportRoundTrip ==
    LET r == importFromJson(Store, exportToJson(Store))
    IN /\ r.nodes = nodes
       /\ r.edges = edges
       /\ r.mapName = mapName
       /\ r.edgeStyle = edgeStyle
       /\ r.edgeColor = edgeColor
       /\ r.edgeLineStyle = edgeLineStyle
       /\ r.selectedNodeId = null

\* a call of importFromJson with a text that does not parse or that parses to
\* an object without nodes or without edges
MalformedImport ==
    /\ Called("importFromJson")
    /\ ~(lastOp'.args[1] /\ lastOp'.args[2] /\ lastOp'.args[3])

\* C12: importFromJson with a malformed payload returns normally and leaves
\* nodes, edges, mapName, edgeStyle, edgeColor, edgeLineStyle and
\* selectedNodeId all unchanged.
C12_MalformedImportWritesNothing ==
    [][MalformedImport =>
           UNCHANGED <<nodes, edges, mapName, edgeStyle, edgeColor, edgeLineStyle,
                       selectedNodeId>>]_vars

\* C12 witness: an object without nodes was imported while a node was selected
\* and the map had a second node.
C12_Witness ==
    /\ lastOp.name = "importFromJson"
    /\ lastOp.args = <<TRUE, FALSE, TRUE>>
    /\ selectedNodeId # null
    /\ Len(nodes) > 1

\* the ids of the topics of the node nodeId, and of the sub-topics of its topic topicId
TopicIdsOf(nodeId) ==
    UNION {{tp.id : tp \in Range(Get(nodes[i].data, "topics", << >>))} :
           i \in {k \in 1..Len(nodes) : nodes[k].id = nodeId}}
SubTopicIdsOf(nodeId, topicId) ==
    UNION {UNION {{st.id : st \in Range(tp.subTopics)} :
                  tp \in {x \in Range(Get(nodes[i].data, "topics", << >>)) : x.id = topicId}} :
           i \in {k \in 1..Len(nodes) : nodes[k].id = nodeId}}

\* a call that names a node, a topic or a sub-topic that does not exist, or an
\* import of a malformed payload
FailingCall ==
    \/ /\ lastOp'.name \in {"updateNodeData", "toggleCollapse", "addTopic", "updateTopic",
                            "deleteTopic", "addSubTopic", "updateSubTopic", "deleteSubTopic"}
       /\ now' = now
       /\ lastOp'.args[1] \notin NodeIds(Store)
    \/ /\ lastOp'.name \in {"updateTopic", "deleteTopic", "addSubTopic", "updateSubTopic",
                            "deleteSubTopic"}
       /\ now' = now
       /\ lastOp'.args[2] \notin TopicIdsOf(lastOp'.args[1])
    \/ /\ lastOp'.name \in {"updateSubTopic", "deleteSubTopic"}
       /\ now' = now
       /\ lastOp'.args[3] \notin SubTopicIdsOf(lastOp'.args[1], lastOp'.args[2])
    \/ MalformedImport

\* C13 (as claimed): a failing call changes neither nodes, edges, the selection,
\* past nor future.
C13_FailingCallChangesNothing ==
    [][FailingCall => UNCHANGED <<nodes, edges, selectedNodeId, past, future>>]_vars

\* C14 (as claimed): addSibling('root') adds no node and no edge and leaves the
\* selection, past and future unchanged.
C14_AddSiblingRootNoOp ==
    [][(Called("addSibling") /\ lastOp'.args[1] = "root") =>
           UNCHANGED <<nodes, edges, selectedNodeId, past, future>>]_vars

\* C15 (as claimed): the ids of the nodes in the node list are pairwise
\* distinct.
C15_NodeIdsDistinct ==
    \A i \in 1..Len(nodes), j \in 1..Len(nodes) : nodes[i].id = nodes[j].id => i = j

\* the orders of the children of p: the nodes some edge from p targets
ChildOrders(p) ==
    {Get(nodes[i].data, "order", 0) :
        i \in {k \in 1..Len(nodes) :
                  \E j \in 1..Len(edges) : edges[j].source = p /\ edges[j].target = nodes[k].id}}

StackedAddNode(p) ==
    /\ Called("addNode")
    /\ p # undefined
    /\ lastOp'.args = <<p, "text", "stacked">>

\* C16: addNode(p, 'text', 'stacked') appends a node whose order is 1 + the
\* largest order of a child of p (0 when p has none); a second such call on the
\* same parent right after the first gives a larger order; addNode keeps every
\* existing node, and deleteNode keeps every remaining node, as it was.
C16_StackedOrder ==
    [][/\ \A p \in IdArgs :
             StackedAddNode(p) =>
                 /\ Len(nodes') = Len(nodes) + 1
                 /\ nodes'[Len(nodes')].data.order = 1 + Max(ChildOrders(p), 0)
                 /\ (lastOp.name = "addNode" /\ lastOp.args = lastOp'.args) =>
                        nodes'[Len(nodes')].data.order > nodes[Len(nodes)].data.order
       /\ Called("addNode") => SubSeq(nodes', 1, Len(nodes)) = nodes
       /\ Called("deleteNode") =>
              \A j \in 1..Len(nodes') : \E i \in 1..Len(nodes) : nodes[i] = nodes'[j]]_vars

\* C16 witness: the second of two successive stacked addNode calls on the same
\* parent has given order 2.
C16_Witness ==
    /\ lastOp.name = "addNode"
    /\ lastOp.args[3] = "stacked"
    /\ lastOp.args[1] # undefined
    /\ Len(nodes) = 3
    /\ Get(nodes[2].data, "order", 0) = 1
    /\ Get(nodes[3].data, "order", 0) = 2

\* C17 (as claimed): a node that has an order is the target of an edge of the
\* stacked type whose source is a node of the node list.
C17_OrderOnlyOnStackedChildren ==
    \A i \in 1..Len(nodes) :
        Has(nodes[i].data, "order") =>
            \E j \in 1..Len(edges) :
                /\ edges[j].target = nodes[i].id
                /\ edges[j].type = "mindmap"
                /\ edges[j].source \in NodeIds(Store)

RedoCall == Called("redo")

\* C18: undo with an empty past and redo with an empty future change nothing of
\* the store; otherwise undo removes the last entry of past, appends the current
\* {nodes, edges} to future and installs the removed entry, and redo removes the
\* last entry of future, appends the current {nodes, edges} to past and installs
\* the removed entry.
C18_UndoRedoSteps ==
    [][/\ UndoCall =>
              IF Len(past) = 0
              THEN Store' = Store
              ELSE /\ past' = SubSeq(past, 1, Len(past) - 1)
                   /\ future' = Append(future, [nodes |-> nodes, edges |-> edges])
                   /\ nodes' = past[Len(past)].nodes
                   /\ edges' = past[Len(past)].edges
       /\ RedoCall =>
              IF Len(future) = 0
              THEN Store' = Store
              ELSE /\ future' = SubSeq(future, 1, Len(future) - 1)
                   /\ past' = Append(past, [nodes |-> nodes, edges |-> edges])
                   /\ nodes' = future[Len(future)].nodes
                   /\ edges' = future[Len(future)].edges]_vars

\* C18 witness: an undo has popped an entry that differs from the state it
\* replaced, with entries left on past.
C18_Witness ==
    /\ lastOp.name = "undo"
    /\ Len(past) > 0
    /\ Len(future) > 0
    /\ future[Len(future)].nodes # nodes

\* C19: undo and redo leave mapName, mapId, edgeStyle, edgeColor,
\* edgeLineStyle, savedMaps and selectedNodeId unchanged.
C19_UndoRedoFrame ==
    [][(UndoCall \/ RedoCall) =>
           UNCHANGED <<mapName, mapId, edgeStyle, edgeColor, edgeLineStyle, savedMaps,
                       selectedNodeId>>]_vars

\* C19 witness: an undo has brought back the graph of before a setEdgeStyle
\* while the edge style, the map name and the selection it found stay.
C19_Witness ==
    /\ lastOp.name = "undo"
    /\ Len(future) > 0
    /\ future[Len(future)].edges # edges
    /\ selectedNodeId # null
    /\ edgeStyle # "smoothstep"

\* C20 (as claimed): the entry an undo or a redo installs was pushed while the
\* current mapId was current.
C20_HistoryScopedToMap ==
    [][/\ (UndoCall /\ Len(past) > 0) =>
              capturedIn.past[Len(capturedIn.past)] = mapId
       /\ (RedoCall /\ Len(future) > 0) =>
              capturedIn.future[Len(capturedIn.future)] = mapId]_vars

\* C21 (as claimed): updateNodeData with a payload of label and/or description
\* only leaves past and future unchanged; with a payload that holds any other
\* field it pushes the pre-call {nodes, edges} onto past, once, and empties
\* future.
C21_SnapshotUnlessPureText ==
    [][Called("updateNodeData") =>
           IF DOMAIN lastOp'.args[2] \subseteq {"label", "description"}
           THEN UNCHANGED <<past, future>>
           ELSE /\ past' = Append(past, [nodes |-> nodes, edges |-> edges])
                /\ future' = << >>]_vars

\* C22: updateNodeData(id, partial) gives the data of every node with that id
\* the values of partial for the fields partial names and keeps its other
\* fields; it keeps the other fields of that node, every other node, the edges,
\* the selection, mapName, mapId, savedMaps and the style defaults.
C22_UpdateNodeDataFrame ==
    [][Called("updateNodeData") =>
           LET id == lastOp'.args[1]
               partial == lastOp'.args[2]
           IN /\ Len(nodes') = Len(nodes)
              /\ \A i \in 1..Len(nodes) :
                     IF nodes[i].id = id
                     THEN /\ DOMAIN nodes'[i].data = DOMAIN nodes[i].data \cup DOMAIN partial
                          /\ \A k \in DOMAIN partial : nodes'[i].data[k] = partial[k]
                          /\ \A k \in DOMAIN nodes[i].data \ DOMAIN partial :
                                 nodes'[i].data[k] = nodes[i].data[k]
                          /\ Without(nodes'[i], "data") = Without(nodes[i], "data")
                     ELSE nodes'[i] = nodes[i]
              /\ UNCHANGED <<edges, selectedNodeId, mapName, mapId, savedMaps, edgeStyle,
                             edgeColor, edgeLineStyle>>]_vars

\* C22 witness: updateNodeData has changed the color of a node whose label was
\* edited before.
C22_Witness ==
    /\ lastOp.name = "updateNodeData"
    /\ lastOp.args[2] = [color |-> "purple"]
    /\ \E i \in 1..Len(nodes) :
           /\ nodes[i].id = lastOp.args[1]
           /\ nodes[i].data.color = "purple"
           /\ nodes[i].data.label = "Edited"

\* one snapshot of the pre-call graph is pushed and no node changes
PushesOneSnapshot ==
    /\ past' = Append(past, [nodes |-> nodes, edges |-> edges])
    /\ nodes' = nodes

\* C23: setEdgeStyle(s) sets edgeStyle to s and the type of every edge to s;
\* setEdgeColor(c) sets edgeColor to c and the stroke of every edge to c;
\* setEdgeLineStyle(l) sets edgeLineStyle to l and makes every edge dashed
\* exactly when l is 'dashed'; each keeps the number of edges, pushes one
\* snapshot and changes no node.
C23_EdgeStyleSetters ==
    [][/\ Called("setEdgeStyle") =>
              /\ edgeStyle' = lastOp'.args[1]
              /\ Len(edges') = Len(edges)
              /\ \A j \in 1..Len(edges') : edges'[j].type = lastOp'.args[1]
              /\ PushesOneSnapshot
       /\ Called("setEdgeColor") =>
              /\ edgeColor' = lastOp'.args[1]
              /\ Len(edges') = Len(edges)
              /\ \A j \in 1..Len(edges') : edges'[j].style.stroke = lastOp'.args[1]
              /\ PushesOneSnapshot
       /\ Called("setEdgeLineStyle") =>
              /\ edgeLineStyle' = lastOp'.args[1]
              /\ Len(edges') = Len(edges)
              /\ \A j \in 1..Len(edges') :
                     Has(edges'[j].style, "strokeDasharray") <=> lastOp'.args[1] = "dashed"
              /\ PushesOneSnapshot]_vars

\* C23 witness: setEdgeStyle has changed the type of the edge of a stacked child.
C23_Witness ==
    /\ lastOp.name = "setEdgeStyle"
    /\ Len(edges) > 0
    /\ Len(past) > 0
    /\ Len(past[Len(past)].edges) > 0
    /\ past[Len(past)].edges[1].type = "mindmap"
    /\ edges[1].type = lastOp.args[1]

\* C24: addNode appends one node, selects it and pushes the pre-call
\* {nodes, edges} onto past; with a parentId it appends one edge from parentId
\* to the new node, of the stacked type for layout 'stacked' and of the
\* edgeStyle default otherwise, with the stroke of edgeColor and dashed exactly
\* when edgeLineStyle is 'dashed'; without a parentId it leaves the edges.
C24_AddNodeEffect ==
    [][Called("addNode") =>
           LET p == lastOp'.args[1]
               layout == lastOp'.args[3]
               new == nodes'[Len(nodes')]
           IN /\ Len(nodes') = Len(nodes) + 1
              /\ SubSeq(nodes', 1, Len(nodes)) = nodes
              /\ selectedNodeId' = new.id
              /\ past' = Append(past, [nodes |-> nodes, edges |-> edges])
              /\ IF p # undefined
                 THEN /\ Len(edges') = Len(edges) + 1
                      /\ SubSeq(edges', 1, Len(edges)) = edges
                      /\ LET e == edges'[Len(edges')]
                         IN /\ e.source = p
                            /\ e.target = new.id
                            /\ e.type = IF layout = "stacked" THEN "mindmap" ELSE edgeStyle
                            /\ e.style.stroke = edgeColor
                            /\ Has(e.style, "strokeDasharray") <=> edgeLineStyle = "dashed"
                 ELSE edges' = edges]_vars

\* C24 witness: addNode with a parent and the default layout, called after the
\* line style default was set to dashed, has added a dashed edge.
C24_Witness ==
    /\ lastOp.name = "addNode"
    /\ lastOp.args[1] # undefined
    /\ lastOp.args[3] = "default"
    /\ edgeLineStyle = "dashed"
    /\ Len(edges) > 0
    /\ edges[Len(edges)].target = selectedNodeId
    /\ Has(edges[Len(edges)].style, "strokeDasharray")

\* the positions of the saved maps with the id of the current map
SavedAt == {i \in 1..Len(savedMaps) : savedMaps[i].id = mapId}

\* C25: savedMaps never holds two entries with the same id; saveCurrentMap of an
\* id that is present replaces that entry where it stands by the current name,
\* nodes and edges, keeps its createdAt and changes no other entry;
\* saveCurrentMap of an id that is not present appends one entry.
C25_SaveIsUpsert ==
    /\ [](\A i \in 1..Len(savedMaps), j \in 1..Len(savedMaps) :
              savedMaps[i].id = savedMaps[j].id => i = j)
    /\ [][Called("saveCurrentMap") =>
              IF SavedAt # {}
              THEN /\ Len(savedMaps') = Len(savedMaps)
                   /\ \A i \in 1..Len(savedMaps) :
                          IF i \in SavedAt
                          THEN savedMaps'[i] =
                                   [id |-> mapId, name |-> mapName,
                                    createdAt |-> savedMaps[i].createdAt, updatedAt |-> now,
                                    nodes |-> nodes, edges |-> edges]
                          ELSE savedMaps'[i] = savedMaps[i]
              ELSE savedMaps' =
                       Append(savedMaps, [id |-> mapId, name |-> mapName,
                                          createdAt |-> now, updatedAt |-> now,
                                          nodes |-> nodes, edges |-> edges])]_vars

\* C25 witness: the current map was saved for the second time, at a later clock
\* value and with one more node.
C25_Witness ==
    /\ lastOp.name = "saveCurrentMap"
    /\ \E i \in SavedAt :
           /\ savedMaps[i].createdAt < savedMaps[i].updatedAt
           /\ Len(savedMaps[i].nodes) > 1

\* C26: loadMap(id) of a saved id pushes the pre-call {nodes, edges} onto past
\* and sets nodes, edges, mapName and mapId to the values of the saved entry and
\* selectedNodeId to null; loadMap(id) of an id that is not saved changes
\* nothing of the store, past and future included.
C26_LoadMapEffect ==
    [][Called("loadMap") =>
           LET id == lastOp'.args[1]
           IN IF id \in SavedIds
              THEN LET map == savedMaps[CHOOSE i \in 1..Len(savedMaps) :
                                   /\ savedMaps[i].id = id
                                   /\ \A j \in 1..(i - 1) : savedMaps[j].id # id]
                   IN /\ past' = Append(past, [nodes |-> nodes, edges |-> edges])
                      /\ nodes' = map.nodes
                      /\ edges' = map.edges
                      /\ mapName' = map.name
                      /\ mapId' = map.id
                      /\ selectedNodeId' = null
              ELSE Store' = Store]_vars

\* C26 witness: loadMap has gone back from another map to a saved map with two
\* nodes.
C26_Witness ==
    /\ lastOp.name = "loadMap"
    /\ Len(past) > 0
    /\ capturedIn.past[Len(capturedIn.past)] # mapId
    /\ Len(nodes) > Len(past[Len(past)].nodes)

\* C27: deleteMap(id) keeps exactly the saved maps with another id, in order,
\* and changes neither nodes, edges, mapName, mapId, the selection, the style
\* defaults, past nor future, also when id is the current mapId; a
\* saveCurrentMap right after deleteMap of the current mapId appends an entry
\* for it.
C27_DeleteMapFrame ==
    [][/\ Called("deleteMap") =>
              /\ savedMaps' = SelectSeq(savedMaps, LAMBDA m : m.id # lastOp'.args[1])
              /\ UNCHANGED <<nodes, edges, mapName, mapId, selectedNodeId, edgeStyle,
                             edgeColor, edgeLineStyle, past, future>>
       /\ (lastOp.name = "deleteMap" /\ lastOp.args[1] = mapId /\ Called("saveCurrentMap")) =>
              /\ Len(savedMaps') = Len(savedMaps) + 1
              /\ savedMaps'[Len(savedMaps')].id = mapId
              /\ savedMaps'[Len(savedMaps')].nodes = nodes
              /\ savedMaps'[Len(savedMaps')].edges = edges]_vars

\* C27 witness: deleteMap has removed the saved entry of the current map while
\* the map had a second node and an entry on past.
C27_Witness ==
    /\ lastOp.name = "deleteMap"
    /\ lastOp.args = <<mapId, TRUE>>
    /\ Len(nodes) > 1
    /\ Len(past) > 0

ResetCall == Called("createNewMap") \/ Called("clearMap")

\* what createNewMap and clearMap leave, the map id apart
ResetEffect ==
    /\ nodes' = initialNodes
    /\ edges' = << >>
    /\ selectedNodeId' = null
    /\ mapName' = "Untitled Mind Map"
    /\ past' = Append(past, [nodes |-> nodes, edges |-> edges])
    /\ savedMaps' = savedMaps

\* C28 (as claimed): after createNewMap or clearMap nodes is the default root
\* alone, edges is empty, selectedNodeId is null, mapName is the default name,
\* the pre-call {nodes, edges} is on top of past, savedMaps is unchanged, and
\* mapId differs from the previous mapId and from the id of every saved map.
C28_ResetWithFreshId ==
    [][ResetCall =>
           /\ ResetEffect
           /\ mapId' # mapId
           /\ mapId' \notin SavedIds]_vars

\* C29 (as claimed): in every reachable state the descendant walk of
\* toggleCollapse returns for every node it can be called with.
C29_WalkTerminates ==
    \A id \in IdArgs : ~walkOverflows(nodes, edges, id, TRUE, Len(nodes) + 1)

\* the positions of the edges that target n
IncomingAt(n) == {j \in 1..Len(edges) : edges[j].target = n}

\* one node is appended and selected
AppendsSelectedNode ==
    /\ Len(nodes') = Len(nodes) + 1
    /\ SubSeq(nodes', 1, Len(nodes)) = nodes
    /\ selectedNodeId' = nodes'[Len(nodes')].id

TopicsOf(node) == Get(node.data, "topics", << >>)

\* a step that is a call of one of the six topic handlers
TopicCall ==
    /\ now' = now
    /\ lastOp'.name \in {"addTopic", "updateTopic", "deleteTopic",
                         "addSubTopic", "updateSubTopic", "deleteSubTopic"}

\* old and new are equal but for the field k
SameBut(old, new, k) ==
    /\ DOMAIN new \ {k} = DOMAIN old \ {k}
    /\ \A f \in DOMAIN old \ {k} : new[f] = old[f]

\* the sub-topic list new is what the sub-topic handler name makes of old
SubTopicsEffect(name, subTopicId, old, new) ==
    IF name = "addSubTopic"
    THEN Len(new) = Len(old) + 1 /\ SubSeq(new, 1, Len(old)) = old
    ELSE IF name = "deleteSubTopic"
    THEN new = SelectSeq(old, LAMBDA st : st.id # subTopicId)
    ELSE /\ Len(new) = Len(old)
         /\ \A k \in 1..Len(old) :
                IF old[k].id = subTopicId
                THEN SameBut(old[k], new[k], "label") /\ new[k].label = "Edited"
                ELSE new[k] = old[k]

\* the topic list new is what the handler call op makes of the topic list old
TopicsEffect(op, old, new) ==
    IF op.name = "addTopic"
    THEN /\ Len(new) = Len(old) + 1
         /\ SubSeq(new, 1, Len(old)) = old
         /\ new[Len(new)].subTopics = << >>
    ELSE IF op.name = "deleteTopic"
    THEN new = SelectSeq(old, LAMBDA tp : tp.id # op.args[2])
    ELSE /\ Len(new) = Len(old)
         /\ \A k \in 1..Len(old) :
                IF old[k].id # op.args[2] THEN new[k] = old[k]
                ELSE IF op.name = "updateTopic"
                THEN SameBut(old[k], new[k], "label") /\ new[k].label = "Edited"
                ELSE /\ SameBut(old[k], new[k], "subTopics")
                     /\ SubTopicsEffect(op.name, IF Len(op.args) > 2 THEN op.args[3] ELSE undefined,
                                        old[k].subTopics, new[k].subTopics)

\* C31 (as claimed): a topic handler called with a node id changes the topics
\* of the nodes with that id as its name says (addTopic appends one topic
\* without sub-topics, deleteTopic removes the topics with the topic id,
\* updateTopic changes the label of those topics, the sub-topic handlers
\* change their sub-topic lists) and leaves every other node, every other data
\* field, every edge and every snapshot already in past as they were.
C31_TopicCallFrame ==
    [][TopicCall =>
           /\ Len(nodes') = Len(nodes)
           /\ edges' = edges
           /\ Len(past') >= Len(past)
           /\ SubSeq(past', 1, Len(past)) = past
           /\ \A i \in 1..Len(nodes) :
                  IF nodes[i].id = lastOp'.args[1]
                  THEN /\ SameBut(nodes[i], nodes'[i], "data")
                       /\ SameBut(nodes[i].data, nodes'[i].data, "topics")
                       /\ TopicsEffect(lastOp', TopicsOf(nodes[i]), TopicsOf(nodes'[i]))
                  ELSE nodes'[i] = nodes[i]]_vars

\* the positions of the edges from source to target
Connecting(es, source, target) ==
    {j \in 1..Len(es) : es[j].source = source /\ es[j].target = target}

\* the edge carries the current defaults of the map
CarriesDefaults(edge) ==
    /\ Has(edge, "type") /\ edge.type = edgeStyle
    /\ Has(edge, "style")
    /\ Has(edge.style, "stroke") /\ edge.style.stroke = edgeColor
    /\ Has(edge.style, "strokeDasharray") <=> edgeLineStyle = "dashed"

\* C32 (as claimed): onConnect(source, target) pushes the graph it found onto
\* past and empties future; afterwards some edge from source to target carries
\* the current edgeStyle, edgeColor and edgeLineStyle; the nodes and the edges
\* that existed are unchanged; a pair that was connected gets no second edge.
C32_OnConnectEffect ==
    [][Called("onConnect") =>
           LET source == lastOp'.args[1]
               target == lastOp'.args[2]
           IN /\ past' = Append(past, Snapshot(Store))
              /\ future' = << >>
              /\ nodes' = nodes
              /\ Len(edges') >= Len(edges)
              /\ SubSeq(edges', 1, Len(edges)) = edges
              /\ Connecting(edges, source, target) # {} => edges' = edges
              /\ \E j \in Connecting(edges', source, target) : CarriesDefaults(edges'[j])]_vars

\* C32 (amended): onConnect(source, target) pushes the graph it found onto past
\* and empties future; the nodes and the edges that existed are unchanged; a
\* pair that was connected gets no second edge, and a pair that was not
\* connected gets one edge, appended, that carries the current edgeStyle,
\* edgeColor and edgeLineStyle.
C32_OnConnectAppends ==
    [][Called("onConnect") =>
           LET source == lastOp'.args[1]
               target == lastOp'.args[2]
           IN /\ past' = Append(past, Snapshot(Store))
              /\ future' = << >>
              /\ nodes' = nodes
              /\ Len(edges') >= Len(edges)
              /\ SubSeq(edges', 1, Len(edges)) = edges
              /\ Connecting(edges, source, target) # {} => edges' = edges
              /\ Connecting(edges, source, target) = {} =>
                    /\ Len(edges') = Len(edges) + 1
                    /\ edges'[Len(edges')].source = source
                    /\ edges'[Len(edges')].target = target
                    /\ CarriesDefaults(edges'[Len(edges')])]_vars

\* C32 witness: onConnect has appended a second edge, which carries the
\* defaults, and the graph it found is on top of past.
C32_Witness ==
    /\ lastOp.name = "onConnect"
    /\ Len(edges) = 2
    /\ edges[2].source = lastOp.args[1]
    /\ edges[2].target = lastOp.args[2]
    /\ CarriesDefaults(edges[2])
    /\ Len(past) > 0
    /\ past[Len(past)] = [nodes |-> nodes, edges |-> SubSeq(edges, 1, 1)]
    /\ future = << >>

\* C33: addNode(p, kind, layout) on a node p of the map places the new node,
\* with k the number of edges from p before the call, at x = p.x + 250 and
\* y = p.y + 60 * k when the layout is stacked, and otherwise at
\* y = p.y + 40 * k - 20 and some x greater than p.x.
C33_ChildPosition ==
    [][(Called("addNode") /\ lastOp'.args[1] \in NodeIds(Store)) =>
           LET p == NodeWithId(nodes, lastOp'.args[1]).position
               k == Cardinality({j \in 1..Len(edges) : edges[j].source = lastOp'.args[1]})
               new == nodes'[Len(nodes')].position
           IN /\ Len(nodes') = Len(nodes) + 1
              /\ IF lastOp'.args[3] = "stacked"
                 THEN new.x = p.x + 250 /\ new.y = p.y + 60 * k
                 ELSE new.y = p.y + 40 * k - 20 /\ new.x > p.x]_vars

\* C33 witness: a second child of root has been stacked 60 below root, after
\* a child of the branch layout that lies 20 above root.
C33_Witness ==
    /\ lastOp.name = "addNode"
    /\ lastOp.args = <<"root", "text", "stacked">>
    /\ Len(nodes) = 3
    /\ Len(edges) = 2
    /\ \A j \in 1..2 : edges[j].source = "root"
    /\ nodes[3].position = [x |-> 650, y |-> 360]
    /\ nodes[2].position.y = 280
    /\ nodes[2].position.x > 400

\* the positions of the stacked nodes that an edge from p targets
StackedChildrenAt(p) ==
    {i \in 1..Len(nodes) :
        /\ Get(nodes[i].data, "layoutType", "default") = "stacked"
        /\ \E j \in 1..Len(edges) : edges[j].source = p /\ edges[j].target = nodes[i].id}

\* C34 (as claimed): after addNode and deleteNode calls only, two stacked
\* children of one parent never lie at the same position.
C34_StackedChildrenApart ==
    \A p \in NodeIds(Store) :
        \A i, j \in StackedChildrenAt(p) :
            i # j => nodes[i].position # nodes[j].position

\* C35 (as claimed): in every reachable state the selection is null or the id
\* of a node of the node list.
C35_SelectionNamesANode ==
    selectedNodeId = null \/ selectedNodeId \in NodeIds(Store)

\* C36: a redo after an undo that found past non-empty, and an undo after a
\* redo that found future non-empty, give nodes, edges, past and future the
\* values they had before the pair; every undo and every redo keeps the sum of
\* the lengths of past and future.
C36_UndoRedoInverse ==
    [][/\ (UndoCall /\ Len(past) > 0) =>
              LET r == redo(Store')
              IN <<r.nodes, r.edges, r.past, r.future>> = <<nodes, edges, past, future>>
       /\ (RedoCall /\ Len(future) > 0) =>
              LET u == undo(Store')
              IN <<u.nodes, u.edges, u.past, u.future>> = <<nodes, edges, past, future>>
       /\ (UndoCall \/ RedoCall) =>
              Len(past') + Len(future') = Len(past) + Len(future)]_vars

\* C36 witness: a redo has installed a graph that differs from the one it
\* pushed, with entries left on future.
C36_Witness ==
    /\ lastOp.name = "redo"
    /\ Len(future) > 0
    /\ Len(past) > 0
    /\ past[Len(past)] # [nodes |-> nodes, edges |-> edges]

\* C37 (as claimed): in every state reached by addNode, onConnect, deleteNode,
\* the three edge style setters, undo and redo, every edge has the current
\* edgeColor as stroke, a dash pattern exactly when edgeLineStyle is dashed,
\* and, unless its type is that of the stacked layout, the current edgeStyle
\* as type.
C37_EdgesFollowDefaults ==
    \A j \in 1..Len(edges) :
        /\ Get(Get(edges[j], "style", << >>), "stroke", undefined) = edgeColor
        /\ Has(Get(edges[j], "style", << >>), "strokeDasharray") <=> edgeLineStyle = "dashed"
        /\ Get(edges[j], "type", undefined) # "mindmap" =>
               Get(edges[j], "type", undefined) = edgeStyle

\* C38: saveCurrentMap leaves an entry with the current map id that holds the
\* current nodes and edges; no call other than saveCurrentMap and deleteMap
\* changes an entry of savedMaps; loadMap of a saved id installs the nodes and
\* edges its entry holds.
C38_SavedMapIsolated ==
    [][/\ Called("saveCurrentMap") =>
              \E i \in 1..Len(savedMaps') :
                  /\ savedMaps'[i].id = mapId
                  /\ savedMaps'[i].nodes = nodes
                  /\ savedMaps'[i].edges = edges
       /\ ~(Called("saveCurrentMap") \/ Called("deleteMap")) =>
              /\ Len(savedMaps') = Len(savedMaps)
              /\ \A i \in 1..Len(savedMaps) :
                     /\ savedMaps'[i].id = savedMaps[i].id
                     /\ savedMaps'[i].nodes = savedMaps[i].nodes
                     /\ savedMaps'[i].edges = savedMaps[i].edges
       /\ (Called("loadMap") /\ lastOp'.args[1] \in SavedIds) =>
              \E i \in 1..Len(savedMaps) :
                  /\ savedMaps[i].id = lastOp'.args[1]
                  /\ nodes' = savedMaps[i].nodes
                  /\ edges' = savedMaps[i].edges]_vars

\* C38 witness: the map was saved with two nodes, got a third node, and loadMap
\* has installed the two saved nodes again.
C38_Witness ==
    /\ lastOp.name = "loadMap"
    /\ Len(nodes) = 2
    /\ Len(past) > 0
    /\ Len(past[Len(past)].nodes) = 3
    /\ SubSeq(past[Len(past)].nodes, 1, 2) = nodes
    /\ \E i \in SavedAt : savedMaps[i].nodes = nodes

\* a step that is a call of a handler that does not touch the history
QuietCall ==
    /\ now' = now
    /\ lastOp'.name \in {"onNodesChange", "onEdgesChange", "setSelectedNode",
                         "setMapName", "saveCurrentMap", "deleteMap"}

\* C39: onNodesChange, onEdgesChange, setSelectedNode, setMapName,
\* saveCurrentMap and deleteMap leave past and future as they were; when a
\* redo was available, a redo after the call installs the snapshot a redo
\* before it would have installed.
C39_QuietCallsKeepHistory ==
    [][QuietCall =>
           /\ past' = past
           /\ future' = future
           /\ Len(future) > 0 =>
                  /\ redo(Store').nodes = redo(Store).nodes
                  /\ redo(Store').edges = redo(Store).edges]_vars

\* C39 witness: a node was dragged while a redo was available for a graph with
\* two nodes.
C39_Witness ==
    /\ lastOp.name = "onNodesChange"
    /\ lastOp.args[1] = "position"
    /\ Len(future) > 0
    /\ Len(future[Len(future)].nodes) = 2
    /\ nodes[1].position = [x |-> 0, y |-> 0]

====
